---- MODULE Spec2Model ----
(***************************************************************************)
(* Host-side driver of the Puppetmaster transaction scheduler               *)
(* (src/main.cpp): workload construction (synthetic generator and CSV       *)
(* loader), the dispatch loop, and the indication callbacks.                *)
(*                                                                          *)
(* Text is held as sequences of one-character strings.  An unsigned long   *)
(* is held as its four 16-bit limbs, least significant first.  An          *)
(* ObjectAddress (32 bits) is held as the integer in -2^31 .. 2^31 - 1      *)
(* that is congruent to the machine value modulo 2^32: the value -5 stands  *)
(* for 4294967291.  The valid and write members of an Object are held as    *)
(* the value of their byte.                                                 *)
(***************************************************************************)
EXTENDS Integers, Sequences, FiniteSets

VARIABLES
    argv,          \* argv[1..argc-1]: the file names given on the command line
    build,         \* how this build treats an uninitialized automatic array
    pc,            \* position of the control thread in main
    fileIdx,       \* i of the loop over input files (line 85)
    lineIdx,       \* number of lines already read from the open file
    readIndices,   \* columns whose label starts with "Read object"
    writeIndices,  \* columns whose label starts with "Written object"
    tests,         \* std::vector<std::array<Object, 16>> tests
    genI,          \* i of the generator loop (line 64)
    genWritten,    \* slot indices assigned by the generator's latest loop over j
    runI,          \* i of the dispatch loop (line 153)
    submitted,     \* the enqueueTransaction calls made so far, in order
    exitCode,      \* value returned from main, NoExit while it runs
    message,       \* the diagnostic written just before main returns
    events,        \* the lines written by the indication callbacks, in order
    schedState,    \* scheduler side: state of each accepted transaction id
    clock          \* scheduler side: its timestamp counter

vars == <<argv, build, pc, fileIdx, lineIdx, readIndices, writeIndices, tests,
          genI, genWritten, runI, submitted, exitCode, message, events, schedState, clock>>

(***************************************************************************)
(* Bounds of the model.                                                     *)
(***************************************************************************)
MaxFiles == 2
MaxEventIds == 2

(***************************************************************************)
(* Program constants.                                                       *)
(***************************************************************************)
numObjects == 16
numTests == 4
maxScheduledObjects == 8
\* Variant: an access-set size one above half the capacity.
objSetSize_Exceeds == numObjects \div 2 + 1

objSetSize == numObjects \div 2

NoExit == 0 - 1

(***************************************************************************)
(* Text helpers.                                                            *)
(***************************************************************************)
Txt_Read == <<"R","e","a","d"," ","o","b","j","e","c","t">>
Txt_Written == <<"W","r","i","t","t","e","n"," ","o","b","j","e","c","t">>

\* label.find(prefix) == 0
StartsWith(s, prefix) ==
    /\ Len(prefix) <= Len(s)
    /\ SubSeq(s, 1, Len(prefix)) = prefix

\* Positions of the commas of s, and the position of the k-th of them
\* (0 before the first, Len(s) + 1 after the last).
Commas(s) == {p \in 1..Len(s) : s[p] = ","}

CommaAt(s, k) ==
    IF k = 0 THEN 0
    ELSE IF k > Cardinality(Commas(s)) THEN Len(s) + 1
    ELSE CHOOSE p \in Commas(s) : Cardinality({d \in Commas(s) : d < p}) = k - 1

\* The fields that repeated std::getline(buffer, field, ',') calls extract
\* from s until one fails.  Each call takes the text up to the next comma or
\* the end; a call made at the end of the text extracts nothing and fails,
\* so the empty text has no field and no empty field follows a final comma.
Fields(s) ==
    LET count == IF Len(s) = 0 \/ s[Len(s)] = ","
                 THEN Cardinality(Commas(s))
                 ELSE Cardinality(Commas(s)) + 1
    IN  [k \in 1..count |-> SubSeq(s, CommaAt(s, k - 1) + 1, CommaAt(s, k) - 1)]

(***************************************************************************)
(* std::stoul(value), base 10, for a 64-bit unsigned long (LP64).           *)
(* strtoul skips leading white space, takes an optional sign, then the      *)
(* longest run of decimal digits, and ignores whatever follows the run.     *)
(* No digit at all: std::invalid_argument.  Magnitude above ULONG_MAX:      *)
(* std::out_of_range.  A '-' sign negates the result in unsigned            *)
(* arithmetic.                                                              *)
(***************************************************************************)
\* The vertical tab, character 11.
VerticalTab == ""

\* isspace() in the C locale
IsSpace(c) == c \in {" ", "\t", "\n", VerticalTab, "\f", "\r"}

IsDigit(c) == c \in {"0", "1", "2", "3", "4", "5", "6", "7", "8", "9"}

DigitValue(c) ==
    CASE c = "0" -> 0 [] c = "1" -> 1 [] c = "2" -> 2 [] c = "3" -> 3
      [] c = "4" -> 4 [] c = "5" -> 5 [] c = "6" -> 6 [] c = "7" -> 7
      [] c = "8" -> 8 [] c = "9" -> 9

\* ULONG_MAX = 18446744073709551615, digit by digit.
ULongMaxDigits == <<1,8,4,4,6,7,4,4,0,7,3,7,0,9,5,5,1,6,1,5>>

RECURSIVE SkipSpaces(_, _)
SkipSpaces(s, p) ==
    IF p <= Len(s) /\ IsSpace(s[p]) THEN SkipSpaces(s, p + 1) ELSE p

RECURSIVE DigitsEnd(_, _)
DigitsEnd(s, p) ==
    IF p <= Len(s) /\ IsDigit(s[p]) THEN DigitsEnd(s, p + 1) ELSE p

RECURSIVE StripZeros(_)
StripZeros(ds) ==
    IF Len(ds) > 1 /\ ds[1] = 0 THEN StripZeros(Tail(ds)) ELSE ds

\* a > b for two digit sequences of the same length
RECURSIVE DigitsGreater(_, _)
DigitsGreater(a, b) ==
    IF Len(a) = 0 THEN FALSE
    ELSE IF a[1] # b[1] THEN a[1] > b[1]
    ELSE DigitsGreater(Tail(a), Tail(b))

ExceedsULong(ds) ==
    \/ Len(ds) > Len(ULongMaxDigits)
    \/ Len(ds) = Len(ULongMaxDigits) /\ DigitsGreater(ds, ULongMaxDigits)

\* Unsigned long arithmetic on limbs: acc * 10 + d, and 0 - v (modulo 2^64).
Limb == 65536

ULongZero == <<0, 0, 0, 0>>

TimesTenPlus(acc, d) ==
    LET t1 == acc[1] * 10 + d
        t2 == acc[2] * 10 + (t1 \div Limb)
        t3 == acc[3] * 10 + (t2 \div Limb)
        t4 == acc[4] * 10 + (t3 \div Limb)
    IN  <<t1 % Limb, t2 % Limb, t3 % Limb, t4 % Limb>>

RECURSIVE DigitsValue(_, _)
DigitsValue(ds, acc) ==
    IF Len(ds) = 0 THEN acc
    ELSE DigitsValue(Tail(ds), TimesTenPlus(acc, ds[1]))

Negated(v) ==
    LET t1 == (Limb - 1 - v[1]) + 1
        t2 == (Limb - 1 - v[2]) + (t1 \div Limb)
        t3 == (Limb - 1 - v[3]) + (t2 \div Limb)
        t4 == (Limb - 1 - v[4]) + (t3 \div Limb)
    IN  <<t1 % Limb, t2 % Limb, t3 % Limb, t4 % Limb>>

stoul(s) ==
    LET p == SkipSpaces(s, 1)
        hasSign == p <= Len(s) /\ s[p] \in {"+", "-"}
        negative == hasSign /\ s[p] = "-"
        q == IF hasSign THEN p + 1 ELSE p
        e == DigitsEnd(s, q)
        ds == StripZeros([k \in 1..(e - q) |-> DigitValue(s[q + k - 1])])
    IN  IF e = q THEN [status |-> "invalid_argument", value |-> ULongZero]
        ELSE IF ExceedsULong(ds) THEN [status |-> "out_of_range", value |-> ULongZero]
        ELSE [status |-> "ok",
              value |-> IF negative THEN Negated(DigitsValue(ds, ULongZero))
                        ELSE DigitsValue(ds, ULongZero)]

\* `address = std::stoul(value)`: the conversion of an unsigned long to
\* ObjectAddress keeps the low 32 bits.
ObjectAddressOf(v) ==
    IF v[2] >= Limb \div 2 THEN (v[2] - Limb) * Limb + v[1]
    ELSE v[2] * Limb + v[1]

(***************************************************************************)
(* Object and std::array<Object, numObjects>.                               *)
(***************************************************************************)
Slots == 0..(numObjects - 1)

Object(valid, write, object) ==
    [valid |-> valid, write |-> write, object |-> object]

ZeroObjs == [k \in Slots |-> Object(0, 0, 0)]

\* Every byte 0xFE.
PatternObjs == [k \in Slots |-> Object(254, 254, 0 - 16843010)]

\* `std::array<Object, numObjects> objs;` runs no initializer: Object is a
\* plain struct, so every slot holds an indeterminate value.  Which bytes a
\* run finds there is not determined by the program: they change with the
\* compiler, its options, the line handled and from run to run.  Such a
\* slot is held as Indeterminate, which stands for the choice of any Object
\* whatever: nothing is known of its members, and what is stated of the
\* slot holds only if it holds of every Object.
Indeterminate == [indeterminate |-> TRUE]

IndeterminateObjs == [k \in Slots |-> Indeterminate]

\* A build made with -ftrivial-auto-var-init=zero or
\* -ftrivial-auto-var-init=pattern fills the storage on every declaration;
\* a default build does not.
Builds == {"zero-init", "pattern-init", "default"}

\* The array right after its declaration.
Uninitialized ==
    IF build = "zero-init" THEN ZeroObjs
    ELSE IF build = "pattern-init" THEN PatternObjs
    ELSE IndeterminateObjs

(***************************************************************************)
(* The input files.  A file is [exists, lines]; lines are the texts that    *)
(* successive std::getline(source, line) calls return.                      *)
(***************************************************************************)
RECURSIVE Join(_)
Join(cells) ==
    IF Len(cells) = 0 THEN <<>>
    ELSE IF Len(cells) = 1 THEN cells[1]
    ELSE cells[1] \o <<",">> \o Join(Tail(cells))

Lbl_R1 == Txt_Read \o <<" ", "1">>
Lbl_W1 == Txt_Written \o <<" ", "1">>
Lbl_Type == <<"T", "y", "p", "e">>
Lbl_ShortRead == <<"R", "e", "a", "d">>
Lbl_SpaceRead == <<" ">> \o Txt_Read
Nines20 == [k \in 1..20 |-> "9"]

FileNames ==
    {"missing.csv", "empty.csv", "ok.csv", "abc.csv", "range.csv",
     "partial.csv", "wide.csv", "nolabels.csv"}

FileOf(name) ==
    CASE name = "missing.csv" -> [exists |-> FALSE, lines |-> <<>>]
      [] name = "empty.csv" -> [exists |-> TRUE, lines |-> <<>>]
      [] name = "ok.csv" ->
           [exists |-> TRUE,
            lines |-> << Join(<<Lbl_R1, Lbl_W1, Lbl_Type>>),
                         Join(<< <<"3">>, <<>>, <<"y">> >>),
                         Join(<< <<"5">>, <<"7">>, <<"x">> >>) >>]
      [] name = "abc.csv" ->
           [exists |-> TRUE,
            lines |-> << Join(<<Lbl_Type, Lbl_R1>>),
                         Join(<< <<"1">>, <<"a", "b", "c">> >>) >>]
      [] name = "range.csv" ->
           [exists |-> TRUE,
            lines |-> << Join(<<Lbl_W1>>),
                         Join(<< <<"1", "2">> >>),
                         Join(<< Nines20 >>) >>]
      [] name = "partial.csv" ->
           [exists |-> TRUE,
            lines |-> << Join(<<Lbl_R1, Lbl_W1>>),
                         Join(<< <<VerticalTab, "1", "2", "a", "b", "c">>,
                                 <<"-", "5">> >>) >>]
      [] name = "wide.csv" ->
           [exists |-> TRUE,
            lines |-> << Join([k \in 1..(numObjects + 1) |->
                                 IF k \in {1, numObjects + 1} THEN Lbl_R1
                                 ELSE IF k = numObjects THEN Lbl_W1
                                 ELSE Lbl_Type]),
                         Join([k \in 1..(numObjects + 1) |->
                                 IF k = 1 THEN <<"1">>
                                 ELSE IF k = numObjects THEN <<"2">>
                                 ELSE IF k = numObjects + 1 THEN <<"z">>
                                 ELSE <<>>]) >>]
      [] name = "nolabels.csv" ->
           [exists |-> TRUE,
            lines |-> << Join(<<Lbl_Type, Lbl_ShortRead, Lbl_SpaceRead>>),
                         Join(<< <<"1">>, <<"2">>, <<"3">> >>) >>]

argc == Len(argv) + 1

CurrentFile == FileOf(argv[fileIdx])

(***************************************************************************)
(* Synthetic workload (lines 60-82).                                        *)
(***************************************************************************)
ReadTarget(i, j) == objSetSize * i * 2 + j * 2

\* Variant: the first branch without its "+ 1".
WriteTarget_SameObject(i, j) ==
    IF i % 4 = 0 THEN objSetSize * i * 2 + j * 2
    ELSE IF i % 4 = 1 THEN objSetSize * (i - (i % 2)) * 2 + j * 2 + 1
    ELSE IF i % 4 = 2 THEN objSetSize * (i % 2) * 2 + j * 2 + 1
    ELSE objSetSize * 2 + j * 2 + 1

WriteTarget(i, j) ==
    IF i % 4 = 0 THEN objSetSize * i * 2 + j * 2 + 1
    ELSE IF i % 4 = 1 THEN objSetSize * (i - (i % 2)) * 2 + j * 2 + 1
    ELSE IF i % 4 = 2 THEN objSetSize * (i % 2) * 2 + j * 2 + 1
    ELSE objSetSize * 2 + j * 2 + 1

\* The slot indices that the loop over j assigns (lines 66-67 and 72).
WrittenSlots == UNION {{2 * j, 2 * j + 1} : j \in 0..(objSetSize - 1)}

\* The array after the loop over j: slots 2j and 2j+1 are assigned for every
\* j < objSetSize, the others keep what the array held.
GeneratedObjs(i, initial) ==
    [k \in Slots |->
        IF k \div 2 < objSetSize
        THEN IF k % 2 = 0 THEN Object(1, 0, ReadTarget(i, k \div 2))
             ELSE Object(1, 1, WriteTarget(i, k \div 2))
        ELSE initial[k]]

(***************************************************************************)
(* CSV loader (lines 85-149).                                               *)
(***************************************************************************)
HeaderReadIndices(header) ==
    LET labels == Fields(header)
    IN  {i \in 0..(Len(labels) - 1) : StartsWith(labels[i + 1], Txt_Read)}

HeaderWriteIndices(header) ==
    LET labels == Fields(header)
    IN  {i \in 0..(Len(labels) - 1) :
            /\ ~StartsWith(labels[i + 1], Txt_Read)
            /\ StartsWith(labels[i + 1], Txt_Written)}

\* The values the loop at lines 125-126 visits: getline is not called once
\* i reaches numObjects.
LineValues(line) ==
    LET cells == Fields(line)
    IN  IF Len(cells) <= numObjects THEN cells ELSE SubSeq(cells, 1, numObjects)

\* The condition at lines 127-128 for column i holding `value`.
IsParsed(value, i, reads, writes) ==
    Len(value) # 0 /\ (i \in reads \/ i \in writes)

\* Outcome of parsing one content line into the array `initial`: the array
\* to push, or the status of the first std::stoul call that throws.
ParseLine(line, reads, writes, initial) ==
    LET values == LineValues(line)
        parsed == {i \in 0..(Len(values) - 1) :
                      IsParsed(values[i + 1], i, reads, writes)}
        thrown == {i \in parsed : stoul(values[i + 1]).status # "ok"}
    IN  IF thrown # {}
        THEN LET first == CHOOSE i \in thrown : \A k \in thrown : i <= k
             IN  [status |-> stoul(values[first + 1]).status,
                  value |-> values[first + 1],
                  objs |-> initial]
        ELSE [status |-> "ok",
              value |-> <<>>,
              objs |-> [k \in Slots |->
                          IF k \in parsed
                          THEN Object(1,
                                      IF k \in writes THEN 1 ELSE 0,
                                      ObjectAddressOf(stoul(values[k + 1]).value))
                          ELSE initial[k]]]

(***************************************************************************)
(* Dispatch (lines 153-158) and the indication callbacks (lines 24-32).     *)
(***************************************************************************)
\* Variant: ids counted from 1.
enqueueTransaction_NextId(i) == [id |-> i + 1, objs |-> tests[i + 1]]

\* The call made by iteration i of the dispatch loop.
enqueueTransaction(i) == [id |-> i, objs |-> tests[i + 1]]

HexDigit(d) ==
    <<"0","1","2","3","4","5","6","7","8","9","a","b","c","d","e","f">>[d + 1]

RECURSIVE HexText(_)
HexText(n) ==
    IF n < 16 THEN <<HexDigit(n)>>
    ELSE HexText(n \div 16) \o <<HexDigit(n % 16)>>

\* printf conversion "%02lx"
Hex02(n) == IF n < 16 THEN <<"0">> \o HexText(n) ELSE HexText(n)

transactionStarted(tid, timestamp) ==
    Append(events, [kind |-> "Started", tid |-> Hex02(tid), at |-> timestamp])

\* Variant: the finish callback writes the text of the start callback.
transactionFinished_AsStarted(tid, timestamp) ==
    Append(events, [kind |-> "Started", tid |-> Hex02(tid), at |-> timestamp])

transactionFinished(tid, timestamp) ==
    Append(events, [kind |-> "Finished", tid |-> Hex02(tid), at |-> timestamp])

(***************************************************************************)
(* Initial state: the process starts with any command line of at most       *)
(* MaxFiles file names, in any of the builds.                               *)
(***************************************************************************)
CommandLines == UNION {[1..n -> FileNames] : n \in 0..MaxFiles}

Init ==
    /\ argv \in CommandLines
    /\ build \in Builds
    /\ pc = "start"
    /\ fileIdx = 0
    /\ lineIdx = 0
    /\ readIndices = {}
    /\ writeIndices = {}
    /\ tests = <<>>
    /\ genI = 0
    /\ genWritten = {}
    /\ runI = 0
    /\ submitted = <<>>
    /\ exitCode = NoExit
    /\ message = <<>>
    /\ events = <<>>
    /\ schedState = <<>>
    /\ clock = 0

schedVars == <<events, schedState, clock>>

\* Variant: the diagnostic is written but the return statement is missing.
Return_KeepRunning(code, text) ==
    /\ pc' = pc
    /\ exitCode' = NoExit
    /\ message' = text

\* return <code>; after printing <text>
Return(code, text) ==
    /\ pc' = "exit"
    /\ exitCode' = code
    /\ message' = text

\* Line 55: choose the workload source.
Start ==
    /\ pc = "start"
    /\ IF argc <= 1
       THEN pc' = "generate" /\ genI' = 0 /\ fileIdx' = fileIdx
       ELSE pc' = "open" /\ fileIdx' = 1 /\ genI' = genI
    /\ UNCHANGED <<argv, build, genWritten, lineIdx, readIndices, writeIndices, tests, runI,
                   submitted, exitCode, message, schedVars>>

\* Lines 64-82: one iteration of the generator loop.
GenerateTest ==
    /\ pc = "generate"
    /\ genI < numTests * maxScheduledObjects
    /\ tests' = Append(tests, GeneratedObjs(genI, Uninitialized))
    /\ genWritten' = WrittenSlots
    /\ genI' = genI + 1
    /\ UNCHANGED <<argv, build, pc, fileIdx, lineIdx, readIndices, writeIndices, runI,
                   submitted, exitCode, message, schedVars>>

\* Line 64: the generator loop ends.
GenerateDone ==
    /\ pc = "generate"
    /\ genI >= numTests * maxScheduledObjects
    /\ pc' = "run"
    /\ runI' = 0
    /\ UNCHANGED <<argv, build, genWritten, fileIdx, lineIdx, readIndices, writeIndices, tests,
                   genI, submitted, exitCode, message, schedVars>>

\* Lines 90-96: open argv[i].
OpenFile ==
    /\ pc = "open"
    /\ IF CurrentFile.exists
       THEN pc' = "header" /\ UNCHANGED <<exitCode, message>>
       ELSE Return(1, <<"File doesn't exist.">>)
    /\ UNCHANGED <<argv, build, genWritten, fileIdx, lineIdx, readIndices, writeIndices, tests,
                   genI, runI, submitted, schedVars>>

\* Lines 99-115: read the header line and record the marked columns.
ReadHeader ==
    /\ pc = "header"
    /\ IF Len(CurrentFile.lines) = 0
       THEN /\ Return(2, <<"No header found in file.">>)
            /\ UNCHANGED <<lineIdx, readIndices, writeIndices>>
       ELSE /\ readIndices' = HeaderReadIndices(CurrentFile.lines[1])
            /\ writeIndices' = HeaderWriteIndices(CurrentFile.lines[1])
            /\ lineIdx' = 1
            /\ pc' = "lines"
            /\ UNCHANGED <<exitCode, message>>
    /\ UNCHANGED <<argv, build, genWritten, fileIdx, tests, genI, runI, submitted, schedVars>>

\* Lines 119-147: read and parse one content line.
LoadLine ==
    /\ pc = "lines"
    /\ lineIdx < Len(CurrentFile.lines)
    /\ LET r == ParseLine(CurrentFile.lines[lineIdx + 1],
                          readIndices, writeIndices, Uninitialized)
       IN  IF r.status = "invalid_argument"
           THEN /\ Return(3, <<"Not an address: ", r.value>>)
                /\ UNCHANGED tests
           ELSE IF r.status = "out_of_range"
           THEN /\ Return(4, <<"Out of range: ", r.value>>)
                /\ UNCHANGED tests
           ELSE /\ tests' = Append(tests, r.objs)
                /\ UNCHANGED <<pc, exitCode, message>>
    /\ lineIdx' = lineIdx + 1
    /\ UNCHANGED <<argv, build, genWritten, fileIdx, readIndices, writeIndices, genI, runI,
                   submitted, schedVars>>

\* Lines 119, 148-149 and 85: end of the file; next file or end of loading.
CloseFile ==
    /\ pc = "lines"
    /\ lineIdx >= Len(CurrentFile.lines)
    /\ fileIdx' = fileIdx + 1
    /\ IF fileIdx + 1 < argc
       THEN pc' = "open" /\ runI' = runI
       ELSE pc' = "run" /\ runI' = 0
    /\ UNCHANGED <<argv, build, genWritten, lineIdx, readIndices, writeIndices, tests, genI,
                   submitted, exitCode, message, schedVars>>

\* Variant: the loop waits for the previous transaction to finish.
Submit_AwaitsFinish ==
    /\ pc = "run"
    /\ runI < Len(tests)
    /\ runI > 0 => (runI - 1 \in DOMAIN schedState /\ schedState[runI - 1] = "finished")
    /\ submitted' = Append(submitted, enqueueTransaction(runI))
    /\ runI' = runI + 1
    /\ UNCHANGED <<argv, build, genWritten, pc, fileIdx, lineIdx, readIndices, writeIndices, tests,
                   genI, exitCode, message, schedVars>>

\* Lines 153-158: one iteration of the dispatch loop.
Submit ==
    /\ pc = "run"
    /\ runI < Len(tests)
    /\ submitted' = Append(submitted, enqueueTransaction(runI))
    /\ runI' = runI + 1
    /\ UNCHANGED <<argv, build, genWritten, pc, fileIdx, lineIdx, readIndices, writeIndices, tests,
                   genI, exitCode, message, schedVars>>

\* Line 153: the dispatch loop ends.
SubmitDone ==
    /\ pc = "run"
    /\ runI >= Len(tests)
    /\ pc' = "wait"
    /\ UNCHANGED <<argv, build, genWritten, fileIdx, lineIdx, readIndices, writeIndices, tests,
                   genI, runI, submitted, exitCode, message, schedVars>>

\* Lines 160-162: while (true) {}
Wait ==
    /\ pc = "wait"
    /\ UNCHANGED vars

(***************************************************************************)
(* The scheduler (outside main.cpp): for an accepted transaction it         *)
(* delivers one start indication and later one finish indication, in any    *)
(* order across transactions.  Indications are modelled for the ids below   *)
(* MaxEventIds.                                                             *)
(***************************************************************************)
AcceptedIds == {submitted[k].id : k \in 1..Len(submitted)}

DeliverStarted ==
    /\ pc \in {"run", "wait"}
    /\ \E tid \in AcceptedIds :
          /\ tid < MaxEventIds
          /\ tid \notin DOMAIN schedState
          /\ schedState' = [t \in DOMAIN schedState \cup {tid} |->
                              IF t = tid THEN "started" ELSE schedState[t]]
          /\ events' = transactionStarted(tid, clock)
    /\ clock' = clock + 1
    /\ UNCHANGED <<argv, build, genWritten, pc, fileIdx, lineIdx, readIndices, writeIndices, tests,
                   genI, runI, submitted, exitCode, message>>

DeliverFinished ==
    /\ pc \in {"run", "wait"}
    /\ \E tid \in DOMAIN schedState :
          /\ schedState[tid] = "started"
          /\ schedState' = [schedState EXCEPT ![tid] = "finished"]
          /\ events' = transactionFinished(tid, clock)
    /\ clock' = clock + 1
    /\ UNCHANGED <<argv, build, genWritten, pc, fileIdx, lineIdx, readIndices, writeIndices, tests,
                   genI, runI, submitted, exitCode, message>>

Next ==
    \/ Start
    \/ GenerateTest
    \/ GenerateDone
    \/ OpenFile
    \/ ReadHeader
    \/ LoadLine
    \/ CloseFile
    \/ Submit
    \/ SubmitDone
    \/ Wait
    \/ DeliverStarted
    \/ DeliverFinished

Spec == Init /\ [][Next]_vars

\* The control thread keeps running while it is in the dispatch loop; nothing
\* is assumed of the scheduler.
FairSpec == Spec /\ WF_vars(Submit) /\ WF_vars(SubmitDone)

(***************************************************************************)
(* Reference reading of the command line's files, used to state the         *)
(* properties: the text of a file taken as a matrix of cells.               *)
(***************************************************************************)
\* Every field of a comma-separated text, empty ones included.
SplitAll(s) ==
    [k \in 1..(Cardinality(Commas(s)) + 1) |->
        SubSeq(s, CommaAt(s, k - 1) + 1, CommaAt(s, k) - 1)]

CellAt(text, i) ==
    LET cells == SplitAll(text)
    IN  IF i < Len(cells) THEN cells[i + 1] ELSE <<>>

IsReadLabel(header, i) == StartsWith(CellAt(header, i), Txt_Read)

IsWriteLabel(header, i) == StartsWith(CellAt(header, i), Txt_Written)

\* Column i of a content line is marked and its cell is not empty.
Populated(c, i) ==
    /\ IsReadLabel(c.header, i) \/ IsWriteLabel(c.header, i)
    /\ Len(CellAt(c.line, i)) > 0

IsUnsignedDecimal(cell) ==
    Len(cell) > 0 /\ \A k \in 1..Len(cell) : IsDigit(cell[k])

DecimalDigits(cell) == StripZeros([k \in 1..Len(cell) |-> DigitValue(cell[k])])

\* The decimal digits of a natural number.
RECURSIVE DigitsOf(_)
DigitsOf(n) ==
    IF n < 10 THEN <<n>> ELSE Append(DigitsOf(n \div 10), n % 10)

\* The address is the number that the cell's digits write.
\* The slot holds a determined Object.
IsDeterminate(o) == "valid" \in DOMAIN o

HoldsNumber(address, cell) ==
    address >= 0 /\ DigitsOf(address) = DecimalDigits(cell)

\* The content lines of a file, each with the header of its file.
ContentOf(name) ==
    LET f == FileOf(name)
    IN  IF ~f.exists \/ Len(f.lines) = 0 THEN <<>>
        ELSE [n \in 1..(Len(f.lines) - 1) |->
                [header |-> f.lines[1], line |-> f.lines[n + 1]]]

RECURSIVE ContentOfAll(_)
ContentOfAll(names) ==
    IF Len(names) = 0 THEN <<>>
    ELSE ContentOf(names[1]) \o ContentOfAll(Tail(names))

AllContent == ContentOfAll(argv)

\* The error condition of a file: 0 none, 1 FileNotFound, 2 MissingHeader,
\* 3 MalformedAddress, 4 AddressOutOfRange, as the loader detects them; for
\* 3 and 4, the first content line that has one decides.
FileFault(name) ==
    LET f == FileOf(name)
    IN  IF ~f.exists THEN 1
        ELSE IF Len(f.lines) = 0 THEN 2
        ELSE LET status(n) == ParseLine(f.lines[n], HeaderReadIndices(f.lines[1]),
                                        HeaderWriteIndices(f.lines[1]), ZeroObjs).status
                 bad == {n \in 2..Len(f.lines) : status(n) # "ok"}
             IN  IF bad = {} THEN 0
                 ELSE IF status(CHOOSE n \in bad : \A m \in bad : n <= m)
                           = "invalid_argument" THEN 3
                 ELSE 4

FileBased == argc > 1

(***************************************************************************)
(* C1: the dispatch loop submits every transaction of the workload exactly  *)
(* once and in workload order: the k-th enqueueTransaction call (k from 0)  *)
(* carries id k and the 16 slots of transaction k, and when the loop has    *)
(* ended there were exactly as many calls as transactions.                  *)
(***************************************************************************)
C1_DispatchInOrder ==
    /\ Len(submitted) <= Len(tests)
    /\ \A k \in 1..Len(submitted) :
          /\ submitted[k].id = k - 1
          /\ submitted[k].objs = tests[k]
    /\ pc = "wait" => Len(submitted) = Len(tests)
    /\ pc \notin {"run", "wait"} => submitted = <<>>

C1_Witness ==
    /\ pc = "wait"
    /\ FileBased
    /\ Len(submitted) = 3
    /\ submitted[3].objs # submitted[1].objs

(***************************************************************************)
(* C2: a load error in any input file, the first or a later one, ends the   *)
(* process at once with the exit code of its condition (1 FileNotFound,     *)
(* 2 MissingHeader, 3 MalformedAddress, 4 AddressOutOfRange), and nothing   *)
(* has been submitted; a run that enters the dispatch loop had no such      *)
(* error in any file of its command line.                                   *)
(***************************************************************************)
C2_LoadErrorsAreFatal ==
    /\ exitCode \in {NoExit, 1, 2, 3, 4}
    /\ (pc = "exit") = (exitCode # NoExit)
    /\ pc = "exit" =>
          /\ exitCode = FileFault(argv[fileIdx])
          /\ \A n \in 1..(fileIdx - 1) : FileFault(argv[n]) = 0
          /\ submitted = <<>>
          /\ events = <<>>
          /\ ~ENABLED Next
    /\ (pc = "run" /\ runI = 0) =>
          \A n \in 1..Len(argv) : FileFault(argv[n]) = 0

C2_Witness ==
    /\ pc = "exit"
    /\ exitCode = 3
    /\ fileIdx = 2
    /\ Len(tests) > 0

\* The loader builds one transaction per content line, in order, so
\* transaction k of a file-based workload comes from content line k.
Loaded == IF FileBased THEN 1..Len(tests) ELSE {}

(***************************************************************************)
(* C3: every non-empty cell at a marked column within the first 16 columns  *)
(* of a line that became a transaction is a valid unsigned base-10 integer  *)
(* within the address width, and the slot holds exactly that number; a run  *)
(* that ends with exit code 3 or 4 reports a cell that is not a valid       *)
(* unsigned integer, or one that exceeds the width.                         *)
(***************************************************************************)
C3_AddressesChecked ==
    /\ \A k \in Loaded : \A i \in Slots :
          Populated(AllContent[k], i) =>
             LET cell == CellAt(AllContent[k].line, i)
             IN  /\ IsUnsignedDecimal(cell)
                 /\ ~ExceedsULong(DecimalDigits(cell))
                 /\ HoldsNumber(tests[k][i].object, cell)
    /\ exitCode = 3 => ~IsUnsignedDecimal(message[2])
    /\ exitCode = 4 =>
          /\ IsUnsignedDecimal(message[2])
          /\ ExceedsULong(DecimalDigits(message[2]))

(***************************************************************************)
(* C4: in every transaction built by the file loader, a slot that the line  *)
(* did not populate (column not marked, empty cell, column missing from a   *)
(* short line, header without recognized labels) has valid = false.         *)
(***************************************************************************)
C4_UnpopulatedSlotsInvalid ==
    \A k \in Loaded : \A i \in Slots :
        ~Populated(AllContent[k], i) =>
            IsDeterminate(tests[k][i]) /\ tests[k][i].valid = 0

(***************************************************************************)
(* C5: loader round trip: slot i of the transaction of a content line is    *)
(* valid exactly when column i is marked and the line's cell i is not       *)
(* empty; then write is set iff the label has the write prefix and object   *)
(* is the cell's number.  No column is both read and write, and cells from  *)
(* column 16 on affect no slot.                                             *)
(***************************************************************************)
C5_LoaderRoundTrip ==
    /\ readIndices \cap writeIndices = {}
    /\ \A k \in Loaded : \A i \in Slots :
          LET c == AllContent[k]
              cell == CellAt(c.line, i)
          IN  /\ IsDeterminate(tests[k][i])
              /\ (tests[k][i].valid # 0) = Populated(c, i)
              /\ Populated(c, i) =>
                    /\ (tests[k][i].write = 1) = IsWriteLabel(c.header, i)
                    /\ IsUnsignedDecimal(cell)
                    /\ HoldsNumber(tests[k][i].object, cell)

(***************************************************************************)
(* C6: the loaded workload has one transaction per content line of the      *)
(* files in argument order; a file given twice yields the same              *)
(* transactions, slot for slot, at both places; ids are consecutive.        *)
(***************************************************************************)
OffsetOf(n) == Len(ContentOfAll(SubSeq(argv, 1, n - 1)))

C6_Concatenation ==
    (FileBased /\ pc \in {"run", "wait"}) =>
       /\ Len(tests) = Len(AllContent)
       /\ \A a \in 1..Len(argv) : \A b \in 1..Len(argv) :
             (a < b /\ argv[a] = argv[b]) =>
                \A k \in 1..Len(ContentOf(argv[a])) : \A i \in Slots :
                    /\ IsDeterminate(tests[OffsetOf(a) + k][i])
                    /\ IsDeterminate(tests[OffsetOf(b) + k][i])
                    /\ tests[OffsetOf(b) + k][i] = tests[OffsetOf(a) + k][i]
       /\ \A k \in 1..Len(submitted) : submitted[k].id = k - 1

(***************************************************************************)
(* C7: whatever the interleaving of the two callbacks with each other and   *)
(* with the dispatch loop, the recorded events of each id hold at most one  *)
(* Started and at most one Finished line, Finished never before Started of  *)
(* the same id, and every line is about a submitted id; events of           *)
(* different ids come in any order.                                         *)
(***************************************************************************)
EventsOf(kind, tid) ==
    {p \in 1..Len(events) : events[p].kind = kind /\ events[p].tid = Hex02(tid)}

C7_PerIdEventOrder ==
    /\ \A p \in 1..Len(events) : \E tid \in AcceptedIds : events[p].tid = Hex02(tid)
    /\ \A tid \in AcceptedIds :
          /\ Cardinality(EventsOf("Started", tid)) <= 1
          /\ Cardinality(EventsOf("Finished", tid)) <= 1
          /\ \A q \in EventsOf("Finished", tid) :
                \E p \in EventsOf("Started", tid) : p < q

\* Started in the order 1, 0 and Finished in the order 0, 1, all before the
\* dispatch loop has ended.
C7_Witness ==
    /\ pc = "run"
    /\ runI < Len(tests)
    /\ Len(events) = 4
    /\ events[1].kind = "Started" /\ events[1].tid = Hex02(1)
    /\ events[2].kind = "Started" /\ events[2].tid = Hex02(0)
    /\ events[3].kind = "Finished" /\ events[3].tid = Hex02(0)
    /\ events[4].kind = "Finished" /\ events[4].tid = Hex02(1)

(***************************************************************************)
Generated == IF FileBased THEN {} ELSE 1..Len(tests)

C9_WriteTargetsReadObject ==
    \A k \in Generated :
        (k - 1) % 4 = 0 =>
           \A j \in 0..(objSetSize - 1) :
               tests[k][2 * j + 1].object = tests[k][2 * j].object

(***************************************************************************)
(* C9 amended: for i mod 4 = 0 the write in slot 2j+1 targets the object    *)
(* whose id is one above that of the read in slot 2j, which is              *)
(* objSetSize*i*2 + j*2 + 1; both slots are valid, slot 2j a read and slot  *)
(* 2j+1 a write.                                                            *)
(***************************************************************************)
C9_WriteTargetsNextObject ==
    \A k \in Generated :
        (k - 1) % 4 = 0 =>
           \A j \in 0..(objSetSize - 1) :
               /\ tests[k][2 * j] = Object(1, 0, objSetSize * (k - 1) * 2 + j * 2)
               /\ tests[k][2 * j + 1] =
                     Object(1, 1, tests[k][2 * j].object + 1)

C9_Witness ==
    /\ ~FileBased
    /\ Len(tests) = 5
    /\ tests[5][1].object = 65

(***************************************************************************)
(* C10: dispatch never waits for a completion: while transactions remain,   *)
(* the next submission is enabled whatever events were delivered; with the  *)
(* control thread alone running, the dispatch loop always ends, and it ends  *)
(* only into the final wait, with every transaction submitted; once waiting *)
(* the driver waits forever; a driver that dispatches or waits has no exit  *)
(* code, whatever events are missing.                                       *)
(***************************************************************************)
C10_FireAndForget ==
    /\ []((pc = "run" /\ runI < Len(tests)) => ENABLED Submit)
    /\ []<>(pc # "run")
    /\ [][pc = "run" => pc' \in {"run", "wait"}]_vars
    /\ [](pc = "wait" => Len(submitted) = Len(tests))
    /\ [][pc = "wait" => pc' = "wait"]_vars
    /\ [](pc \in {"run", "wait"} => exitCode = NoExit)

\* Everything is submitted and no event was ever delivered.
C10_Witness ==
    /\ pc = "wait"
    /\ Len(submitted) = Len(tests)
    /\ Len(tests) >= 2
    /\ events = <<>>

====
